---- MODULE Spec2Model ----
(***************************************************************************)
(* Model of the regular-expression automaton of lab07/automaton:           *)
(* RegexIterator (validation, conversion to the standard form, cursor),    *)
(* State (ordered transition table), Automaton (Thompson combinators,      *)
(* recursive-descent construction, epsilon-cycle check, closure, step,     *)
(* word test and substring scan).                                          *)
(*                                                                         *)
(* Strings are sequences of one-character strings.  Indices named as in    *)
(* the source are 0-based; element i of a Python string s is s[i + 1].     *)
(***************************************************************************)
EXTENDS Integers, Sequences, FiniteSets, TLC

(***************************************************************************)
(* Bounds of the model.                                                    *)
(***************************************************************************)
MaxPatLen == 3

MaxRawLen == 3

MaxTextLen == 3

MaxWordLen == 2

\* The longest pattern of literal symbols.
MaxLitLen == 3

\* The most states in a frontier given to __closure or __trans on its own.
MaxFrontier == 2

\* The longest queue __closure is followed to.
MaxQueue == 12

(***************************************************************************)
(* Generic helpers.                                                        *)
(***************************************************************************)
Range(s) == {s[k] : k \in 1..Len(s)}

SetMin(S) == CHOOSE m \in S : \A x \in S : m <= x

SeqsUpTo(A, n) == UNION {[1..k -> A] : k \in 0..n}

\* Python's s[lo:hi] for a sequence s, negative indices counted from the end.
PySlice(s, lo, hi) ==
  LET n  == Len(s)
      l0 == IF lo < 0 THEN (IF lo + n < 0 THEN 0 ELSE lo + n) ELSE (IF lo > n THEN n ELSE lo)
      h0 == IF hi < 0 THEN (IF hi + n < 0 THEN 0 ELSE hi + n) ELSE (IF hi > n THEN n ELSE hi)
  IN  IF l0 >= h0 THEN <<>> ELSE SubSeq(s, l0 + 1, h0)

RECURSIVE JoinWith(_, _)
\* sep.join(list(s)) for a string s and a one-character separator.
JoinWith(sep, s) ==
  IF Len(s) = 0 THEN <<>>
  ELSE IF Len(s) = 1 THEN s
  ELSE <<s[1], sep>> \o JoinWith(sep, Tail(s))

(***************************************************************************)
(* ValidCharacters                                                         *)
(***************************************************************************)
SPACE == " "

ANY_SYMBOL == "."

DIGITS_SET == {"0", "1", "2", "3", "4", "5", "6", "7", "8", "9"}

ASCII_SET ==
  {"a", "b", "c", "d", "e", "f", "g", "h", "i", "j", "k", "l", "m",
   "n", "o", "p", "q", "r", "s", "t", "u", "v", "w", "x", "y", "z",
   "A", "B", "C", "D", "E", "F", "G", "H", "I", "J", "K", "L", "M",
   "N", "O", "P", "Q", "R", "S", "T", "U", "V", "W", "X", "Y", "Z"}

VALID_SYMBOLS == ASCII_SET \cup DIGITS_SET \cup {SPACE, ANY_SYMBOL}

PARENTHESES == {"(", ")", "[", "]"}

KLEENE_CLOSURE == "*"

ONE_OR_NONE == "?"

ONE_CLOSURE == "+"

META_SYMBOLS == {KLEENE_CLOSURE, ONE_OR_NONE, ONE_CLOSURE}

BACK_SLASH == "\\"

DIGITS == "d"

DIGITS_CLASS == <<BACK_SLASH, "d">>

WORD == "w"

WORD_CLASS == <<BACK_SLASH, "w">>

ALPHA == "a"

ALPHA_CLASS == <<BACK_SLASH, "a">>

CLASS_SYMBOLS == {DIGITS, WORD, ALPHA}

ALL_SYMBOLS ==
  VALID_SYMBOLS \cup PARENTHESES \cup META_SYMBOLS \cup CLASS_SYMBOLS
    \cup {BACK_SLASH, ANY_SYMBOL}

STD_EPSILON == "?"

STD_SUM == "+"

STD_KLEENE == "*"

(***************************************************************************)
(* RegexIterator: validation                                               *)
(***************************************************************************)
\* The position carried by a rejection whose message names none.
NoPos == -1

\* A validation that counts positions from one.
Reject_one_based(p, why) ==
  [ok |-> FALSE, pos |-> IF p = NoPos THEN NoPos ELSE p + 1, msg |-> why]

Reject(p, why) == [ok |-> FALSE, pos |-> p, msg |-> why]

RECURSIVE regex_correct_loop(_, _, _)
\* One iteration of the scan of __regex_correct at 0-based index i; v holds
\* the five local variables of the function.
regex_correct_loop(regex, i, v) ==
  IF i = Len(regex)
  THEN [ok  |-> (v.parentheses_square = v.parentheses_round
                   /\ v.parentheses_round = 0),
        pos |-> NoPos,
        msg |-> "Some parentheses are not enclosed"]
  ELSE
    LET letter == regex[i + 1]
        round_empty  == IF v.round_empty /\ letter # ")" THEN FALSE ELSE v.round_empty
        square_empty == IF v.square_empty /\ letter # "]" THEN FALSE ELSE v.square_empty
        nextIsLast == (Len(regex) = i + 1)
    IN
    IF v.in_square /\ letter \notin VALID_SYMBOLS /\ letter # "]"
    THEN Reject(i, "Invalid symbol in parentheses []")
    ELSE IF letter \notin ALL_SYMBOLS
    THEN Reject(i, "Invalid symbol")
    ELSE IF letter = ")" /\ round_empty
    THEN Reject(i - 1, "Empty parentheses ()")
    ELSE IF letter = "]" /\ square_empty
    THEN Reject(i - 1, "Empty parentheses []")
    ELSE IF letter = BACK_SLASH
            /\ (nextIsLast \/ regex[i + 2] \notin CLASS_SYMBOLS)
    THEN Reject(i, "Backslash not followed by valid class symbol")
    ELSE IF letter # BACK_SLASH /\ letter \in META_SYMBOLS
            /\ ((~nextIsLast /\ regex[i + 2] \in META_SYMBOLS) \/ i = 0)
    THEN Reject(i, "Repetition meta symbols in a row")
    ELSE IF letter \in META_SYMBOLS /\ i > 0
            /\ regex[i] \notin VALID_SYMBOLS /\ regex[i] # ")" /\ regex[i] # "]"
    THEN Reject(i, "Invalid use of symbol")
    ELSE
      regex_correct_loop(regex, i + 1,
        [parentheses_round  |-> v.parentheses_round
                                  + (IF letter = "(" THEN 1 ELSE 0)
                                  - (IF letter = ")" THEN 1 ELSE 0),
         parentheses_square |-> v.parentheses_square
                                  + (IF letter = "[" THEN 1 ELSE 0)
                                  - (IF letter = "]" THEN 1 ELSE 0),
         in_square    |-> IF letter = "[" THEN TRUE
                          ELSE IF letter = "]" THEN FALSE ELSE v.in_square,
         round_empty  |-> IF letter = "(" THEN TRUE ELSE round_empty,
         square_empty |-> IF letter = "[" THEN TRUE ELSE square_empty])

regex_correct(regex) ==
  regex_correct_loop(regex, 0,
    [parentheses_round |-> 0, parentheses_square |-> 0, in_square |-> FALSE,
     round_empty |-> FALSE, square_empty |-> FALSE])

(***************************************************************************)
(* RegexIterator: conversion to the standard regular expression            *)
(***************************************************************************)
EmptyMap == [k \in {} |-> 0]

\* dict.get(key, default)
MapGet(m, key, default) == IF key \in DOMAIN m THEN m[key] ELSE default

\* m[key] = value
MapPut(m, key, value) == [k \in (DOMAIN m) \cup {key} |-> IF k = key THEN value ELSE m[k]]

\* The keys and values of m moved by off (lines 156-157).
MapShift(m, off) == [k \in {e + off : e \in DOMAIN m} |-> m[k - off] + off]

MapMerge(m1, m2) ==
  [k \in (DOMAIN m1) \cup (DOMAIN m2) |-> IF k \in DOMAIN m2 THEN m2[k] ELSE m1[k]]

IndexError == [err |-> TRUE, text |-> <<>>, parenthesis_begin |-> EmptyMap]

RECURSIVE find_square_end(_, _)
\* The loop of lines 136-137: the first j' >= j with text[j'] = ']', or -1
\* when the index runs off the string (IndexError).
find_square_end(text, j) ==
  IF j >= Len(text) THEN -1
  ELSE IF text[j + 1] = "]" THEN j
  ELSE find_square_end(text, j + 1)

RECURSIVE find_round_end(_, _, _)
\* The loop of lines 147-152: j after the parenthesis that brings the count
\* to 0, or -1 when the index runs off the string (IndexError).
find_round_end(text, j, num_of_parentheses) ==
  IF num_of_parentheses = 0 THEN j
  ELSE IF j >= Len(text) THEN -1
  ELSE find_round_end(text, j + 1,
         num_of_parentheses + (IF text[j + 1] = "(" THEN 1 ELSE 0)
                            - (IF text[j + 1] = ")" THEN 1 ELSE 0))

\* Line 164 and lines 165-166: the start of the pattern a '+' repeats.
one_closure_begin(text, parenthesis_begin, i) ==
  LET beg_idx == MapGet(parenthesis_begin, i - 1, i - 1)
  IN  IF i - 1 > 0 /\ text[i - 1] = BACK_SLASH THEN beg_idx - 1 ELSE beg_idx

\* Line 175: the start of the pattern a '?' makes optional.
one_or_none_begin(text, parenthesis_begin, i) ==
  MapGet(parenthesis_begin, i - 1, i - 1)

RECURSIVE convert_loop(_, _, _)
RECURSIVE convert_to_standard_re_helper(_)

\* The while loop of __convert_to_standard_re_helper at index i.
convert_loop(text, parenthesis_begin, i) ==
  IF ~(i < Len(text))
  THEN [err |-> FALSE, text |-> text, parenthesis_begin |-> parenthesis_begin]
  ELSE
    LET c == text[i + 1] IN
    IF c = "["
    THEN LET j == find_square_end(text, i + 1) IN
         IF j = -1 THEN IndexError
         ELSE LET pattern == <<"(">> \o JoinWith("+", PySlice(text, i + 1, j)) \o <<")">>
                  text2   == PySlice(text, 0, i) \o pattern \o PySlice(text, j + 1, Len(text))
                  i2      == i - 1 + Len(pattern)
              IN  convert_loop(text2, MapPut(parenthesis_begin, i2, i), i2 + 1)
    ELSE IF c = "("
    THEN LET j == find_round_end(text, i + 1, 1) IN
         IF j = -1 THEN IndexError
         ELSE LET inner == convert_to_standard_re_helper(PySlice(text, i + 1, j - 1)) IN
              IF inner.err THEN IndexError
              ELSE LET pattern == inner.text
                       pb1     == MapMerge(parenthesis_begin,
                                           MapShift(inner.parenthesis_begin, i + 1))
                       text2   == PySlice(text, 0, i + 1) \o pattern
                                    \o PySlice(text, j - 1, Len(text))
                       i2      == i + 1 + Len(pattern)
                   IN  convert_loop(text2, MapPut(pb1, i2, i), i2 + 1)
    ELSE IF c = ONE_CLOSURE
    THEN LET beg_idx == one_closure_begin(text, parenthesis_begin, i)
             pattern == PySlice(text, beg_idx, i)
             text2   == PySlice(text, 0, beg_idx) \o pattern \o pattern
                          \o <<STD_KLEENE>> \o PySlice(text, i + 1, Len(text))
         IN  convert_loop(text2, parenthesis_begin, i + Len(pattern) + 1)
    ELSE IF c = ONE_OR_NONE
    THEN LET beg_idx == one_or_none_begin(text, parenthesis_begin, i)
             pattern == PySlice(text, beg_idx, i)
             text2   == PySlice(text, 0, beg_idx) \o <<"(">> \o pattern
                          \o <<STD_SUM, STD_EPSILON, ")">>
                          \o PySlice(text, i + 1, Len(text))
         IN  convert_loop(text2, parenthesis_begin, beg_idx + Len(pattern) + 3 + 1)
    ELSE convert_loop(text, parenthesis_begin, i + 1)

convert_to_standard_re_helper(text) == convert_loop(text, EmptyMap, 0)

RegexIterator_converted(regex, h) ==
  IF h.err
  THEN [status |-> "IndexError", pos |-> NoPos, msg |-> "", regex |-> regex]
  ELSE [status |-> "ok", pos |-> NoPos, msg |-> "", regex |-> h.text]

RegexIterator_checked(regex, c) ==
  IF ~c.ok
  THEN [status |-> "ValueError", pos |-> c.pos, msg |-> c.msg, regex |-> regex]
  ELSE RegexIterator_converted(regex, convert_to_standard_re_helper(regex))

\* RegexIterator.__init__: how the construction of the iterator ends, and
\* the regex it holds.
RegexIterator(regex) ==
  IF Len(regex) = 0
  THEN [status |-> "EmptyRegex", pos |-> NoPos, msg |-> "Empty regex.", regex |-> regex]
  ELSE RegexIterator_checked(regex, regex_correct(regex))

(***************************************************************************)
(* RegexIterator: cursor                                                   *)
(***************************************************************************)
\* chr(0): differs from every symbol of a pattern.
END_OF_STRING == "NUL"

\* __iter__ followed by nothing: idx = 0, char = None.
iter_cursor == [idx |-> 0, char |-> "None"]

\* next_char: __next__ at idx, stored in char.
next_char(regex, cur) ==
  IF cur.idx = Len(regex)
  THEN [idx |-> cur.idx, char |-> END_OF_STRING]
  ELSE [idx |-> cur.idx + 1, char |-> regex[cur.idx + 1]]

(***************************************************************************)
(* State: an insertion-ordered table from label to list of targets.  A     *)
(* label is a string: EPSILON, one symbol, or a class such as \d.  States  *)
(* are numbered in the order of their creation; `states` holds the table   *)
(* of every state created so far.                                          *)
(***************************************************************************)
EPSILON == <<>>

\* State.__contains__
\* A membership test that never fails, as if every lookup were unguarded.
StateContains_always(trans, item) == TRUE

StateContains(trans, item) == \E k \in 1..Len(trans) : trans[k].key = item

KeyIndex(trans, item) == CHOOSE k \in 1..Len(trans) : trans[k].key = item

\* The table after a lookup trans[item] of the defaultdict: a missing label
\* is created with an empty list.
DefaultDictTouch(trans, item) ==
  IF \E k \in 1..Len(trans) : trans[k].key = item
  THEN trans
  ELSE Append(trans, [key |-> item, val |-> <<>>])

\* State.__getitem__: the value read.
StateGetItem(trans, item) ==
  LET t == DefaultDictTouch(trans, item) IN t[KeyIndex(t, item)].val

\* State.__setitem__: self.trans[key] += [value]
StateSetItem(trans, key, value) ==
  LET t == DefaultDictTouch(trans, key)
      k == KeyIndex(t, key)
  IN  [t EXCEPT ![k] = [key |-> key, val |-> Append(t[k].val, value)]]

\* State.get(key, default)
StateGet(trans, key, default) ==
  IF StateContains(trans, key) THEN StateGetItem(trans, key) ELSE default

\* State.keys()
StateKeys(trans) == [k \in 1..Len(trans) |-> trans[k].key]

\* states after `states[src][label] = dst`
SetEdge(states, src, label, dst) ==
  [states EXCEPT ![src] = StateSetItem(@, label, dst)]

\* states after a lookup `states[src][label]`
Touch(states, src, label) ==
  [states EXCEPT ![src] = DefaultDictTouch(@, label)]

(***************************************************************************)
(* Automaton: constructor and combinators (operands not copied, as the     *)
(* construction from a regular expression uses them).                      *)
(***************************************************************************)
\* Automaton.__init__ on the states created so far.
Automaton(states, letter) ==
  LET initial == Len(states) + 1
      final   == Len(states) + 2
  IN  [states  |-> SetEdge(states \o <<(<<>>), (<<>>)>>, initial, letter, final),
       initial |-> initial,
       final   |-> final]

\* A star whose old final state leads back to the old initial state.
perform_star_textbook(automaton) ==
  LET old_initial == automaton.initial
      old_final   == automaton.final
      initial     == Len(automaton.states) + 1
      final       == Len(automaton.states) + 2
      s0 == automaton.states \o <<(<<>>), (<<>>)>>
      s1 == SetEdge(s0, initial, EPSILON, old_initial)
      s2 == SetEdge(s1, initial, EPSILON, final)
      s3 == SetEdge(s2, old_final, EPSILON, old_initial)
      s4 == SetEdge(s3, old_final, EPSILON, final)
  IN  [states |-> s4, initial |-> initial, final |-> final]

\* __perform_star(automaton, copy=False)
perform_star(automaton) ==
  LET old_initial == automaton.initial
      old_final   == automaton.final
      initial     == Len(automaton.states) + 1
      final       == Len(automaton.states) + 2
      s0 == automaton.states \o <<(<<>>), (<<>>)>>
      s1 == SetEdge(s0, initial, EPSILON, old_initial)
      s2 == SetEdge(s1, initial, EPSILON, final)
      s3 == SetEdge(s2, old_final, EPSILON, initial)
      s4 == SetEdge(s3, old_final, EPSILON, final)
  IN  [states |-> s4, initial |-> initial, final |-> final]

\* A concatenation that does not link the two operands.
perform_concatenation_unlinked(aut1, aut2) ==
  [states |-> aut2.states, initial |-> aut1.initial, final |-> aut2.final]

\* __perform_concatenation(aut1, aut2, copy_fst=False, copy_snd=False);
\* aut2 was built after aut1 and holds every state.
perform_concatenation(aut1, aut2) ==
  [states  |-> SetEdge(aut2.states, aut1.final, EPSILON, aut2.initial),
   initial |-> aut1.initial,
   final   |-> aut2.final]

\* __perform_alternative(aut1, aut2, copy_fst=False, copy_snd=False)
perform_alternative(aut1, aut2) ==
  LET old_initial == aut1.initial
      old_final   == aut1.final
      initial     == Len(aut2.states) + 1
      final       == Len(aut2.states) + 2
      s0 == aut2.states \o <<(<<>>), (<<>>)>>
      s1 == SetEdge(s0, initial, EPSILON, old_initial)
      s2 == SetEdge(s1, initial, EPSILON, aut2.initial)
      s3 == SetEdge(s2, old_final, EPSILON, final)
      s4 == SetEdge(s3, aut2.final, EPSILON, final)
  IN  [states |-> s4, initial |-> initial, final |-> final]

\* No fragment.
NoFragment == [states |-> <<>>, initial |-> 0, final |-> 0]

(***************************************************************************)
(* Automaton: recursive-descent construction                               *)
(***************************************************************************)
ParseError(cur) ==
  [err |-> TRUE, states |-> <<>>, initial |-> 0, final |-> 0, cur |-> cur]

Parsed(automaton, cur) ==
  [err |-> FALSE, states |-> automaton.states, initial |-> automaton.initial,
   final |-> automaton.final, cur |-> cur]

RECURSIVE expr(_, _, _)
RECURSIVE expr_loop(_, _)
RECURSIVE term(_, _, _)
RECURSIVE term_loop(_, _)
RECURSIVE factor(_, _, _)

\* Lines 405-410: a class; c1 is the cursor on the class symbol.
factor_class(regex, cur, c1, states) ==
  Parsed(Automaton(states, <<cur.char, c1.char>>), next_char(regex, c1))

\* Lines 421-422: the closing parenthesis after the inner expression e.
factor_group(regex, e) ==
  IF e.err THEN e
  ELSE IF e.cur.char = ")"
  THEN [e EXCEPT !.cur = next_char(regex, e.cur)]
  ELSE e

\* Lines 405-424: the atom of a factor.
factor_atom(regex, cur, states) ==
  IF cur.char = BACK_SLASH
  THEN factor_class(regex, cur, next_char(regex, cur), states)
  ELSE IF cur.char = STD_EPSILON
  THEN Parsed(Automaton(states, EPSILON), next_char(regex, cur))
  ELSE IF cur.char \in VALID_SYMBOLS
  THEN Parsed(Automaton(states, <<cur.char>>), next_char(regex, cur))
  ELSE IF cur.char = "("
  THEN factor_group(regex, expr(regex, next_char(regex, cur), states))
  ELSE ParseError(cur)

\* Lines 425-427: the optional star after the atom.
factor_star(regex, atom) ==
  IF atom.err THEN atom
  ELSE IF atom.cur.char = STD_KLEENE
  THEN Parsed(perform_star(atom), next_char(regex, atom.cur))
  ELSE atom

\* __factor
factor(regex, cur, states) == factor_star(regex, factor_atom(regex, cur, states))

\* Lines 396-399: the factor f is concatenated to automaton.
term_concat(regex, automaton, f) ==
  IF f.err THEN f
  ELSE term_loop(regex, Parsed(perform_concatenation(automaton, f), f.cur))

\* the while loop of __term
term_loop(regex, automaton) ==
  IF automaton.cur.char \in VALID_SYMBOLS
       \/ automaton.cur.char = "("
       \/ automaton.cur.char = BACK_SLASH
  THEN term_concat(regex, automaton, factor(regex, automaton.cur, automaton.states))
  ELSE automaton

term_first(regex, f) == IF f.err THEN f ELSE term_loop(regex, f)

\* __term
term(regex, cur, states) == term_first(regex, factor(regex, cur, states))

\* Lines 384-386: the term t is added to automaton as an alternative.
expr_alternative(regex, automaton, t) ==
  IF t.err THEN t
  ELSE expr_loop(regex, Parsed(perform_alternative(automaton, t), t.cur))

\* the while loop of __expr
expr_loop(regex, automaton) ==
  IF automaton.cur.char = STD_SUM
  THEN expr_alternative(regex, automaton,
                        term(regex, next_char(regex, automaton.cur), automaton.states))
  ELSE automaton

expr_first(regex, t) == IF t.err THEN t ELSE expr_loop(regex, t)

\* __expr
expr(regex, cur, states) == expr_first(regex, term(regex, cur, states))

(***************************************************************************)
(* Automaton: epsilon-cycle check                                          *)
(***************************************************************************)
RECURSIVE Flatten(_)
Flatten(ss) == IF Len(ss) = 0 THEN <<>> ELSE Head(ss) \o Flatten(Tail(ss))

\* Every target of a state, label by label in the order of keys().
Neighbours(trans) == Flatten([k \in 1..Len(trans) |-> trans[k].val])

RECURSIVE bfs_visit(_, _, _, _)
\* The inner loops of __bfs_generator over the neighbours nbhs from index k.
bfs_visit(nbhs, k, queue, visited) ==
  IF k > Len(nbhs) THEN [queue |-> queue, visited |-> visited]
  ELSE IF nbhs[k] \notin visited
  THEN bfs_visit(nbhs, k + 1, Append(queue, nbhs[k]), visited \cup {nbhs[k]})
  ELSE bfs_visit(nbhs, k + 1, queue, visited)

RECURSIVE bfs_loop(_, _, _, _)
RECURSIVE bfs_next(_, _, _)

bfs_next(states, r, yielded) == bfs_loop(states, r.queue, r.visited, yielded)

\* The while loop of __bfs_generator.
bfs_loop(states, queue, visited, yielded) ==
  IF Len(queue) = 0 THEN yielded
  ELSE bfs_next(states,
                bfs_visit(Neighbours(states[Head(queue)]), 1, Tail(queue), visited),
                Append(yielded, Head(queue)))

\* __bfs_generator: the nodes in the order they are yielded.
bfs_generator(automaton) ==
  bfs_loop(automaton.states, <<automaton.initial>>, {automaton.initial}, <<>>)

RECURSIVE has_epsilon_cycle(_, _, _, _)
RECURSIVE has_epsilon_cycle_loop(_, _, _, _, _, _)
RECURSIVE has_epsilon_cycle_after(_, _, _, _, _)

\* Lines 606-609: after the recursive call on neighbours[k] returned r.
has_epsilon_cycle_after(states, node, neighbours, k, r) ==
  IF r.found THEN r
  ELSE has_epsilon_cycle_loop(states, node, neighbours, k + 1,
                              r.visited \cup {neighbours[k]}, r.processed)

\* The for loop of __has_epsilon_cycle over neighbours from index k.
\* A search that takes every visited neighbour for one on the current path.
has_epsilon_cycle_loop_revisit(states, node, neighbours, k, visited, processed) ==
  IF k > Len(neighbours)
  THEN [found |-> FALSE, visited |-> visited, processed |-> processed \cup {node}]
  ELSE IF neighbours[k] \in visited
  THEN [found |-> TRUE, visited |-> visited, processed |-> processed]
  ELSE has_epsilon_cycle_after(states, node, neighbours, k,
         has_epsilon_cycle(states, neighbours[k], visited, processed))

has_epsilon_cycle_loop(states, node, neighbours, k, visited, processed) ==
  IF k > Len(neighbours)
  THEN [found |-> FALSE, visited |-> visited, processed |-> processed \cup {node}]
  ELSE IF neighbours[k] \notin processed
  THEN IF neighbours[k] \in visited
       THEN [found |-> TRUE, visited |-> visited, processed |-> processed]
       ELSE has_epsilon_cycle_after(states, node, neighbours, k,
              has_epsilon_cycle(states, neighbours[k], visited, processed))
  ELSE has_epsilon_cycle_loop(states, node, neighbours, k + 1, visited, processed)

\* __has_epsilon_cycle
has_epsilon_cycle(states, node, visited, processed) ==
  has_epsilon_cycle_loop(states, node, StateGet(states[node], EPSILON, <<>>), 1,
                         visited \cup {node}, processed)

RECURSIVE is_acyclic_loop(_, _, _, _, _)
RECURSIVE is_acyclic_after(_, _, _, _)

is_acyclic_after(states, nodes, k, r) ==
  IF r.found THEN FALSE
  ELSE is_acyclic_loop(states, nodes, k + 1, r.visited, r.processed)

\* The for loop of __is_acyclic over the yielded nodes from index k.
is_acyclic_loop(states, nodes, k, visited, processed) ==
  IF k > Len(nodes) THEN TRUE
  ELSE IF nodes[k] \notin processed
  THEN is_acyclic_after(states, nodes, k,
                        has_epsilon_cycle(states, nodes[k], visited, processed))
  ELSE is_acyclic_loop(states, nodes, k + 1, visited, processed)

\* A check that finds every fragment free of epsilon cycles.
is_acyclic_unchecked(automaton) == TRUE

\* __is_acyclic
is_acyclic(automaton) ==
  is_acyclic_loop(automaton.states, bfs_generator(automaton), 1, {}, {})

BuildFailed(status, it, automaton) ==
  [status |-> status, pos |-> it.pos, msg |-> it.msg, regex |-> it.regex,
   states |-> automaton.states, initial |-> automaton.initial,
   final |-> automaton.final]

\* Lines 372-376: the check of the fragment; a rejected fragment is kept in
\* the outcome for inspection.
build_check(it, automaton, acyclic) ==
  IF ~acyclic THEN BuildFailed("EpsilonCycle", it, automaton)
  ELSE BuildFailed("ok", it, automaton)

\* Line 371: the fragment is parsed from the standard regex.
build_parsed(it, automaton, check_correctness) ==
  IF automaton.err THEN BuildFailed("Exception", it, NoFragment)
  ELSE build_check(it, automaton, ~check_correctness \/ is_acyclic(automaton))

build_iterated(it, check_correctness) ==
  IF it.status # "ok" THEN BuildFailed(it.status, it, NoFragment)
  ELSE build_parsed(it, expr(it.regex, next_char(it.regex, iter_cursor), <<>>),
                    check_correctness)

\* build_from_regex: the outcome of the call.
build_from_regex(regex, check_correctness) ==
  build_iterated(RegexIterator(regex), check_correctness)

(***************************************************************************)
(* Python dict from state to set of indexes, in insertion order            *)
(***************************************************************************)
DictHas(d, key) == \E k \in 1..Len(d) : d[k].state = key

DictGet(d, key) == d[CHOOSE k \in 1..Len(d) : d[k].state = key].indexes

\* d[key] = value: an existing key keeps its place.
DictSet(d, key, value) ==
  IF \E k \in 1..Len(d) : d[k].state = key
  THEN [k \in 1..Len(d) |-> IF d[k].state = key
                             THEN [state |-> key, indexes |-> value] ELSE d[k]]
  ELSE Append(d, [state |-> key, indexes |-> value])

DictKeys(d) == [k \in 1..Len(d) |-> d[k].state]

(***************************************************************************)
(* Automaton: closure and step.  Both return the dict and the states as    *)
(* the lookups leave them.                                                 *)
(***************************************************************************)
RECURSIVE closure_visit(_, _, _, _, _)
\* A loop that does not put a state it has met before on the queue again.
closure_visit_once(next_states, k, indexes_set, queue, state_dict) ==
  IF k > Len(next_states) THEN [queue |-> queue, state_dict |-> state_dict]
  ELSE IF ~DictHas(state_dict, next_states[k])
  THEN closure_visit(next_states, k + 1, indexes_set, Append(queue, next_states[k]),
                     DictSet(state_dict, next_states[k], indexes_set))
  ELSE closure_visit(next_states, k + 1, indexes_set, queue,
                     DictSet(state_dict, next_states[k],
                             DictGet(state_dict, next_states[k]) \cup indexes_set))

\* The for loop of lines 442-449 over next_states from index k.
closure_visit(next_states, k, indexes_set, queue, state_dict) ==
  IF k > Len(next_states) THEN [queue |-> queue, state_dict |-> state_dict]
  ELSE IF ~DictHas(state_dict, next_states[k])
  THEN closure_visit(next_states, k + 1, indexes_set, Append(queue, next_states[k]),
                     DictSet(state_dict, next_states[k], indexes_set))
  ELSE closure_visit(next_states, k + 1, indexes_set, Append(queue, next_states[k]),
                     DictSet(state_dict, next_states[k],
                             DictGet(state_dict, next_states[k]) \cup indexes_set))

RECURSIVE closure_loop(_, _, _)
RECURSIVE closure_next(_, _)

closure_next(states, r) == closure_loop(states, r.queue, r.state_dict)

\* The while loop of __closure.
closure_loop(states, queue, state_dict) ==
  IF Len(queue) = 0 THEN [state_dict |-> state_dict, states |-> states]
  ELSE IF StateContains(states[Head(queue)], EPSILON)
  THEN closure_next(Touch(states, Head(queue), EPSILON),
                    closure_visit(StateGetItem(states[Head(queue)], EPSILON), 1,
                                  DictGet(state_dict, Head(queue)),
                                  Tail(queue), state_dict))
  ELSE closure_loop(states, Tail(queue), state_dict)

\* __closure
closure(states, state_dict) == closure_loop(states, DictKeys(state_dict), state_dict)

\* One iteration of the while loop of __closure (lines 438-449).
closure_iteration(states, queue, state_dict) ==
  IF StateContains(states[Head(queue)], EPSILON)
  THEN closure_visit(StateGetItem(states[Head(queue)], EPSILON), 1,
                     DictGet(state_dict, Head(queue)), Tail(queue), state_dict)
  ELSE [queue |-> Tail(queue), state_dict |-> state_dict]

\* `letter in s` for a one-symbol letter and a string s.
InString(letter, s) == letter \in Range(s)

\* Lines 460-461: the loop variable letter after a state is looked at.
letter_after(trans, letter) ==
  IF StateContains(trans, <<ANY_SYMBOL>>) THEN ANY_SYMBOL ELSE letter

\* Lines 459-471: the label followed from a state; letter is the loop
\* variable as the earlier states left it.
alternative_letter(trans, letter) ==
  IF StateContains(trans, ALPHA_CLASS) /\ letter_after(trans, letter) \in ASCII_SET
  THEN ALPHA_CLASS
  ELSE IF StateContains(trans, WORD_CLASS)
            /\ (InString(letter_after(trans, letter), DIGITS_CLASS)
                  \/ letter_after(trans, letter) \in ASCII_SET)
  THEN WORD_CLASS
  ELSE IF StateContains(trans, DIGITS_CLASS) /\ letter_after(trans, letter) \in DIGITS_SET
  THEN DIGITS_CLASS
  ELSE <<letter>>

RECURSIVE trans_visit(_, _, _, _)
\* The for loop of lines 474-479 over new_states from index k.
trans_visit(new_states, k, indexes_set, result_dict) ==
  IF k > Len(new_states) THEN result_dict
  ELSE IF DictHas(result_dict, new_states[k])
  THEN trans_visit(new_states, k + 1, indexes_set,
                   DictSet(result_dict, new_states[k],
                           DictGet(result_dict, new_states[k]) \cup indexes_set))
  ELSE trans_visit(new_states, k + 1, indexes_set,
                   DictSet(result_dict, new_states[k], indexes_set))

RECURSIVE trans_loop(_, _, _, _, _)
RECURSIVE trans_follow(_, _, _, _, _, _)

\* Lines 473-479 for the k-th key, whose label is alt.
trans_follow(states, state_dict, k, letter, result_dict, alt) ==
  IF StateContains(states[state_dict[k].state], alt)
  THEN trans_loop(Touch(states, state_dict[k].state, alt), state_dict, k + 1,
                  letter_after(states[state_dict[k].state], letter),
                  trans_visit(StateGetItem(states[state_dict[k].state], alt), 1,
                              state_dict[k].indexes, result_dict))
  ELSE trans_loop(states, state_dict, k + 1,
                  letter_after(states[state_dict[k].state], letter), result_dict)

\* The for loop of __trans over the keys of state_dict from the k-th.
trans_loop(states, state_dict, k, letter, result_dict) ==
  IF k > Len(state_dict) THEN [state_dict |-> result_dict, states |-> states]
  ELSE trans_follow(states, state_dict, k, letter, result_dict,
                    alternative_letter(states[state_dict[k].state], letter))

\* __trans
trans(states, state_dict, letter) == trans_loop(states, state_dict, 1, letter, <<>>)

(***************************************************************************)
(* Automaton: word test and substring scan                                 *)
(***************************************************************************)
\* __closure applied to what __trans returned.
closure_of(trans_dict) == closure(trans_dict.states, trans_dict.state_dict)

RECURSIVE test_word_loop(_, _, _)
\* The for loop of test_word from the k-th letter; c is the last closure.
test_word_loop(c, word, k) ==
  IF k > Len(word) THEN c
  ELSE test_word_loop(closure_of(trans(c.states, c.state_dict, word[k])), word, k + 1)

test_word_answer(automaton, r) ==
  [accepted |-> DictHas(r.state_dict, automaton.final), states |-> r.states]

\* test_word: the answer and the states as the call leaves them.
test_word(automaton, word) ==
  test_word_answer(automaton,
    test_word_loop(closure(automaton.states,
                           <<[state |-> automaton.initial, indexes |-> {0}]>>),
                   word, 1))

\* A list of occurrences that takes a new entry for every assignment.
OccSet_append(occurrences, key, value) == Append(occurrences, <<key, value>>)

\* Python dict from start to end, in insertion order: occurrences[key] = value.
OccSet(occurrences, key, value) ==
  IF \E k \in 1..Len(occurrences) : occurrences[k][1] = key
  THEN [k \in 1..Len(occurrences) |->
          IF occurrences[k][1] = key THEN <<key, value>> ELSE occurrences[k]]
  ELSE Append(occurrences, <<key, value>>)

\* Line 501: the frontier before the first letter.
matching_begin(automaton) ==
  closure(automaton.states, <<[state |-> automaton.initial, indexes |-> {-1}]>>)

\* A confirmation that does not ask for a non-empty candidate.
confirm_candidate_any(automaton, word_to_test) == test_word(automaton, word_to_test)

\* Line 516: whether the candidate is recorded, and the states as the
\* test leaves them.
confirm_candidate(automaton, word_to_test) ==
  IF Len(word_to_test) # 0
  THEN test_word(automaton, word_to_test)
  ELSE [accepted |-> FALSE, states |-> automaton.states]

\* A scan that starts no candidate after the first one.
matching_seed_none(automaton, i, trans_dict) == trans_dict

\* Lines 507-510: the initial state is given the index i.
matching_seed(automaton, i, trans_dict) ==
  [states     |-> trans_dict.states,
   state_dict |-> IF DictHas(trans_dict.state_dict, automaton.initial)
                  THEN DictSet(trans_dict.state_dict, automaton.initial,
                               DictGet(trans_dict.state_dict, automaton.initial) \cup {i})
                  ELSE DictSet(trans_dict.state_dict, automaton.initial, {i})]

\* Line 517: the candidate from start_idx is recorded when t accepted it.
matching_record(c, occurrences, start_idx, i, t) ==
  [state_dict  |-> c.state_dict,
   states      |-> t.states,
   occurrences |-> IF t.accepted THEN OccSet(occurrences, start_idx + 1, i + 1)
                   ELSE occurrences]

\* Lines 514-516: the candidate that ends at i.
matching_candidate(automaton, text, i, c, occurrences, start_idx) ==
  matching_record(c, occurrences, start_idx, i,
    confirm_candidate([automaton EXCEPT !.states = c.states],
                      PySlice(text, start_idx + 1, i + 1)))

\* Lines 513-517: c is the closure after letter i.
matching_final(automaton, text, i, c, occurrences) ==
  IF DictHas(c.state_dict, automaton.final)
  THEN matching_candidate(automaton, text, i, c, occurrences,
                          SetMin(DictGet(c.state_dict, automaton.final)))
  ELSE [state_dict |-> c.state_dict, states |-> c.states, occurrences |-> occurrences]

\* Lines 505-517: one iteration of the for loop of __matching, at index i.
matching_iteration(automaton, text, i, state_dict, occurrences) ==
  matching_final(automaton, text, i,
    closure_of(matching_seed(automaton, i,
                             trans(automaton.states, state_dict, text[i + 1]))),
    occurrences)

(***************************************************************************)
(* Automaton: highlighting of the occurrences                              *)
(***************************************************************************)
\* termcolor.colored: the text between the codes that switch the colour on
\* and off; neither code is a symbol of a text.
COLOR_ON == "ESC[34m"

COLOR_OFF == "ESC[0m"

colored(t) == <<COLOR_ON>> \o t \o <<COLOR_OFF>>

RECURSIVE sorted(_)
\* sorted(keys): the set S in ascending order.
sorted(S) ==
  IF S = {} THEN <<>> ELSE <<SetMin(S)>> \o sorted(S \ {SetMin(S)})

\* occurrences[start_idx]
OccGet(occurrences, key) ==
  occurrences[CHOOSE k \in 1..Len(occurrences) : occurrences[k][1] = key][2]

\* Lines 546-547: the start of the coloured part.
clipped_start(start_idx, beginning) ==
  IF start_idx < beginning THEN beginning ELSE start_idx

RECURSIVE highlight_loop(_, _, _, _, _, _)
\* The for loop of lines 542-553 from the k-th key on.
highlight_loop(text, occurrences, keys, k, beginning, processed_text) ==
  IF k > Len(keys) THEN processed_text \o PySlice(text, beginning, Len(text))
  ELSE highlight_loop(text, occurrences, keys, k + 1, OccGet(occurrences, keys[k]),
         processed_text
           \o PySlice(text, beginning, clipped_start(keys[k], beginning))
           \o colored(PySlice(text, clipped_start(keys[k], beginning),
                               OccGet(occurrences, keys[k]))))

\* __highlight_found(text, occurrences, color, attrs)
highlight_found(text, occurrences) ==
  highlight_loop(text, occurrences,
                 sorted({occurrences[k][1] : k \in 1..Len(occurrences)}), 1, 0, <<>>)

(***************************************************************************)
(* Inputs of the model                                                     *)
(***************************************************************************)
PatAlphabet == {"a", "b", "(", ")", "*", "?"}

NamedPatterns ==
  { <<"a", "b", "*", "a">>,
    <<"(", "a", "a", ")", "*">>,
    <<"a", "+", "b", "?">>,
    <<"[", "a", "b", "]", "b">> }

Patterns == SeqsUpTo(PatAlphabet, MaxPatLen) \cup NamedPatterns

TextAlphabet == {"a", "b"}

NamedTexts == { <<"x", "a", "a", "b", "a", "y">>, <<"a", "a", "a", "a">> }

Texts == SeqsUpTo(TextAlphabet, MaxTextLen) \cup NamedTexts

RawAlphabet == {"a", "1", ".", "(", ")", "[", "]", "*", "+", "?", "\\", "d"}

NamedRawPatterns ==
  { <<")", "a", "(">>, <<"]", "a", "[">>, <<"(", "a">>, <<"a", "*", "*">>,
    <<"[", "]">>, <<"\\", "x">>, <<"\\", "w">>, <<"\\", "d", "?">>,
    <<"[", ".", "a", "]">>, <<"[", "a", ".", "]">>,
    <<"(", "a", "*", ")", "*">>, <<"(", "a", "?", ")", "*">>,
    <<"(", "a", "*", ")", "+">>, <<"(", "a", "*", ")", "?">>,
    <<"(", "\\", "d", ")", "?">>, <<"[", "a", "1", "]", "?">> }

RawPatterns == SeqsUpTo(RawAlphabet, MaxRawLen) \cup NamedRawPatterns

WordAlphabet == {"a", "b", "1", "."}

Words == SeqsUpTo(WordAlphabet, MaxWordLen)

\* Labels of a fragment put together by hand.
ManualLetters == {<<"a">>, EPSILON}

\* Literal symbols: letters, a digit, the space and the dot.
LiteralAlphabet == {"a", "x", "1", SPACE, ANY_SYMBOL}

LiteralPatterns == SeqsUpTo(LiteralAlphabet, MaxLitLen) \ {<<>>}

\* The words a literal pattern is tested on: itself, and itself followed by x.
LiteralWords(p) == {p, Append(p, "x")}

(***************************************************************************)
(* The state machine                                                       *)
(***************************************************************************)
VARIABLES
  pc,           \* "start", "failed", "ready" (a fragment is held), "scan"
  pattern,      \* the raw regular expression given to build_from_regex
  outcome,      \* [status, pos, msg, regex]: how construction ended
  automaton,    \* [states, initial, final]: the fragment
  last,         \* the call that returned last: "none", "test_word", "matching"
  word,         \* argument of the last test_word
  accepted,     \* its answer
  text,         \* argument of the running or last matching
  i,            \* __matching: index of the next letter
  state_dict,   \* __matching: the frontier
  occurrences,  \* __matching: the dict start -> end, in insertion order
  spans,        \* the list matching returned
  frontier,     \* argument of the running or last __closure or __trans
  symbol,       \* the letter given to the last __trans
  queue,        \* __closure: the queue of states to expand
  result        \* what the last operation applied on its own returned

vars == <<pc, pattern, outcome, automaton, last, word, accepted,
          text, i, state_dict, occurrences, spans,
          frontier, symbol, queue, result>>

\* The variables of the operations applied on their own.
units == <<frontier, symbol, queue, result>>

Init ==
  /\ pc = "start"
  /\ pattern = <<>>
  /\ outcome = [status |-> "none", pos |-> NoPos, msg |-> "", regex |-> <<>>]
  /\ automaton = NoFragment
  /\ last = "none"
  /\ word = <<>>
  /\ accepted = FALSE
  /\ text = <<>>
  /\ i = 0
  /\ state_dict = <<>>
  /\ occurrences = <<>>
  /\ spans = <<>>
  /\ frontier = <<>>
  /\ symbol = ""
  /\ queue = <<>>
  /\ result = <<>>

\* The variables construction sets, from the outcome b of build_from_regex.
Built(b) ==
  /\ outcome' = [status |-> b.status, pos |-> b.pos, msg |-> b.msg, regex |-> b.regex]
  /\ automaton' = [states |-> b.states, initial |-> b.initial, final |-> b.final]
  /\ pc' = IF b.status = "ok" THEN "ready" ELSE "failed"

\* Automaton.build_from_regex(regex, check_correctness)
BuildFromRegex(regex, check_correctness) ==
  /\ pc = "start"
  /\ pattern' = regex
  /\ Built(build_from_regex(regex, check_correctness))
  /\ UNCHANGED <<last, word, accepted, text, i, state_dict, occurrences, spans>>
  /\ UNCHANGED units

\* Automaton(letter) followed by src[State.EPSILON] = dst.
ManualFragment(letter, src, dst) ==
  [states  |-> SetEdge(Automaton(<<>>, letter).states, src, EPSILON, dst),
   initial |-> 1,
   final   |-> 2]

ManualOutcome(a, acyclic) ==
  [status |-> IF acyclic THEN "ok" ELSE "EpsilonCycle", pos |-> NoPos, msg |-> "",
   regex |-> <<>>, states |-> a.states, initial |-> a.initial, final |-> a.final]

ManualChecked(a) == ManualOutcome(a, is_acyclic(a))

\* A fragment put together by hand and given the check of lines 372-375.
ConstructManually(letter, src, dst) ==
  /\ pc = "start"
  /\ pattern' = <<>>
  /\ Built(ManualChecked(ManualFragment(letter, src, dst)))
  /\ UNCHANGED <<last, word, accepted, text, i, state_dict, occurrences, spans>>
  /\ UNCHANGED units

Tested(r) ==
  /\ accepted' = r.accepted
  /\ automaton' = [automaton EXCEPT !.states = r.states]

\* automaton.test_word(w)
TestWord(w) ==
  /\ pc = "ready"
  /\ Tested(test_word(automaton, w))
  /\ word' = w
  /\ last' = "test_word"
  /\ text' = <<>>
  /\ i' = 0
  /\ state_dict' = <<>>
  /\ occurrences' = <<>>
  /\ spans' = <<>>
  /\ UNCHANGED <<pc, pattern, outcome>>
  /\ UNCHANGED units

Begun(c) ==
  /\ state_dict' = c.state_dict
  /\ automaton' = [automaton EXCEPT !.states = c.states]

\* automaton.matching(t, verbose=False) is called: lines 501-502.
MatchingStart(t) ==
  /\ pc = "ready"
  /\ Begun(matching_begin(automaton))
  /\ text' = t
  /\ i' = 0
  /\ occurrences' = <<>>
  /\ spans' = <<>>
  /\ word' = <<>>
  /\ accepted' = FALSE
  /\ last' = "none"
  /\ pc' = "scan"
  /\ UNCHANGED <<pattern, outcome>>
  /\ UNCHANGED units

Stepped(r) ==
  /\ state_dict' = r.state_dict
  /\ occurrences' = r.occurrences
  /\ automaton' = [automaton EXCEPT !.states = r.states]

\* One iteration of the for loop of __matching.
MatchingStep ==
  /\ pc = "scan"
  /\ i < Len(text)
  /\ Stepped(matching_iteration(automaton, text, i, state_dict, occurrences))
  /\ i' = i + 1
  /\ UNCHANGED <<pc, pattern, outcome, last, word, accepted, text, spans>>
  /\ UNCHANGED units

\* __matching returns and matching builds its list (line 585).
MatchingReturn ==
  /\ pc = "scan"
  /\ i = Len(text)
  /\ spans' = occurrences
  /\ last' = "matching"
  /\ pc' = "ready"
  /\ UNCHANGED <<pattern, outcome, automaton, word, accepted, text, i,
                 state_dict, occurrences>>
  /\ UNCHANGED units

Next ==
  \/ \E regex \in Patterns : BuildFromRegex(regex, TRUE)
  \/ \E w \in Words : TestWord(w)
  \/ \E t \in Texts : MatchingStart(t)
  \/ MatchingStep
  \/ MatchingReturn

Spec == Init /\ [][Next]_vars

\* Construction over the raw syntax, and one word test of the fragment built
\* (Spec repeats the calls on one fragment).
NextSyntax ==
  \/ \E regex \in RawPatterns : BuildFromRegex(regex, TRUE)
  \/ \E letter \in ManualLetters : \E src, dst \in 1..2 :
       ConstructManually(letter, src, dst)
  \/ \E w \in Words : last = "none" /\ TestWord(w)

SpecSyntax == Init /\ [][NextSyntax]_vars

\* Patterns whose fragments hold wildcard and class edges, nested
\* quantifiers, or an epsilon cycle.
NamedUnitPatterns ==
  { <<".">>, <<"a", ".">>, <<".", "a">>,
    <<"[", ".", "a", "]">>, <<"[", "a", ".", "]">>,
    <<"\\", "d">>, <<"\\", "w">>, <<"\\", "a">>,
    <<"[", "a", "b", "]", "*">>, <<"(", "a", "?", ")", "?">>,
    <<"(", "a", "*", ")", "*">>, <<"(", "a", "?", ")", "*">> }

\* One letter is enough for the shape of a fragment.
UnitAlphabet == {"a", "(", ")", "*", "?"}

UnitPatterns ==
  SeqsUpTo(UnitAlphabet, MaxPatLen) \cup NamedPatterns \cup NamedUnitPatterns

\* The dicts given as a frontier of a fragment of n states: up to
\* MaxFrontier distinct states in any order, the k-th with the index k - 1.
Frontiers(n) ==
  UNION { { [k \in 1..len |-> [state |-> f[k], indexes |-> {k - 1}]] :
              f \in {g \in [1..len -> 1..n] :
                        \A j, k \in 1..len : j # k => g[j] # g[k]} } :
          len \in 1..MaxFrontier }

\* The frontiers an operation applied on its own can be given: those of the
\* fragment held, when no operation has been applied to it yet.
ReadyFrontiers ==
  IF pc = "ready" /\ last = "none" THEN Frontiers(Len(automaton.states)) ELSE {}

Closed(r) ==
  /\ queue' = r.queue
  /\ state_dict' = r.state_dict

\* Automaton.__closure(f) is called: lines 433-435.
ClosureStart(f) ==
  /\ pc = "ready" /\ last = "none"
  /\ frontier' = f
  /\ state_dict' = f
  /\ queue' = DictKeys(f)
  /\ pc' = "closure"
  /\ UNCHANGED <<pattern, outcome, automaton, last, word, accepted, text, i,
                 occurrences, spans, symbol, result>>

\* One iteration of the while loop of __closure.
ClosureStep ==
  /\ pc = "closure"
  /\ Len(queue) > 0 /\ Len(queue) <= MaxQueue
  /\ Closed(closure_iteration(automaton.states, queue, state_dict))
  /\ automaton' = [automaton EXCEPT !.states =
                     IF StateContains(@[Head(queue)], EPSILON)
                     THEN Touch(@, Head(queue), EPSILON) ELSE @]
  /\ UNCHANGED <<pc, pattern, outcome, last, word, accepted, text, i,
                 occurrences, spans, frontier, symbol, result>>

\* __closure returns state_dict (line 451).
ClosureReturn ==
  /\ pc = "closure"
  /\ Len(queue) = 0
  /\ result' = state_dict
  /\ last' = "closure"
  /\ pc' = "ready"
  /\ UNCHANGED <<pattern, outcome, automaton, word, accepted, text, i,
                 state_dict, occurrences, spans, frontier, symbol, queue>>

Applied(r) ==
  /\ result' = r.state_dict
  /\ automaton' = [automaton EXCEPT !.states = r.states]

\* Automaton.__trans(f, letter)
Trans(f, letter) ==
  /\ pc = "ready" /\ last = "none"
  /\ Applied(trans(automaton.states, f, letter))
  /\ frontier' = f
  /\ symbol' = letter
  /\ last' = "trans"
  /\ UNCHANGED <<pc, pattern, outcome, word, accepted, text, i, state_dict,
                 occurrences, spans, queue>>

\* automaton.star(): the fragment returned, its states numbered as those of
\* the operand they copy.
Star ==
  /\ pc = "ready" /\ last = "none"
  /\ result' = perform_star(automaton)
  /\ last' = "star"
  /\ UNCHANGED <<pc, pattern, outcome, automaton, word, accepted, text, i,
                 state_dict, occurrences, spans, frontier, symbol, queue>>

\* Construction, and then one operation applied on its own to the fragment.
NextUnits ==
  \/ \E regex \in UnitPatterns : BuildFromRegex(regex, TRUE)
  \/ \E f \in ReadyFrontiers : ClosureStart(f)
  \/ ClosureStep
  \/ ClosureReturn
  \/ \E f \in ReadyFrontiers : \E letter \in WordAlphabet : Trans(f, letter)
  \/ Star

SpecUnits == Init /\ [][NextUnits]_vars

\* __closure is a loop of one thread: an iteration that can run does run.
FairUnits == SpecUnits /\ WF_vars(ClosureStep) /\ WF_vars(ClosureReturn)

\* __matching returns to matching(t, verbose=True), which prints the text
\* with the occurrences highlighted and builds its list (lines 575-585).
MatchingPrint ==
  /\ pc = "scan"
  /\ i = Len(text)
  /\ result' = highlight_found(text, occurrences)
  /\ spans' = occurrences
  /\ last' = "print"
  /\ pc' = "ready"
  /\ UNCHANGED <<pattern, outcome, automaton, word, accepted, text, i,
                 state_dict, occurrences, frontier, symbol, queue>>

\* Construction and verbose matching.
NextHighlight ==
  \/ \E regex \in Patterns : BuildFromRegex(regex, TRUE)
  \/ \E t \in Texts : MatchingStart(t)
  \/ MatchingStep
  \/ MatchingPrint

SpecHighlight == Init /\ [][NextHighlight]_vars

\* Construction from a pattern of literal symbols, and one word test.
NextLiteral ==
  \/ \E regex \in LiteralPatterns : BuildFromRegex(regex, TRUE)
  \/ \E w \in LiteralWords(pattern) : last = "none" /\ TestWord(w)

SpecLiteral == Init /\ [][NextLiteral]_vars

(***************************************************************************)
(* Properties                                                              *)
(***************************************************************************)
P_ab_star_a == <<"a", "b", "*", "a">>

T_xaabay == <<"x", "a", "a", "b", "a", "y">>

\* matching has returned its list for the pattern p and the text t.
Matched(p, t) == pc = "ready" /\ last = "matching" /\ pattern = p /\ text = t

\* test_word has returned for the word held in `word`.
WordTested == pc = "ready" /\ last = "test_word"

Starts(occ) == {occ[k][1] : k \in 1..Len(occ)}

EndsIncrease(occ) == \A j, k \in 1..Len(occ) : j < k => occ[j][2] < occ[k][2]

\* C1 as stated: matching of `ab*a` on `xaabay` returns exactly the one span
\* (1, 5).
C1_Original == Matched(P_ab_star_a, T_xaabay) => spans = << <<1, 5>> >>

\* C1 amended: matching of `ab*a` on `xaabay` returns exactly the two spans
\* (1, 3) and (2, 5), in this order: `aa` and `aba` match, `aaba` does not.
C1_Amended == Matched(P_ab_star_a, T_xaabay) => spans = << <<1, 3>>, <<2, 5>> >>

C1_Witness == Matched(P_ab_star_a, T_xaabay) /\ Len(spans) = 2

\* C2 as stated: the spans matching returns are in strictly increasing order
\* of end.
C2_Original == (pc = "ready" /\ last = "matching") => EndsIncrease(spans)

\* What one iteration of the scan may do to the dict of occurrences: nothing,
\* or append a span with a start not yet listed, or replace in place the end
\* of a listed start; the end written is i + 1, beyond every end listed.
OccurrencesStep ==
  \/ occurrences' = occurrences
  \/ /\ Len(occurrences') = Len(occurrences) + 1
     /\ SubSeq(occurrences', 1, Len(occurrences)) = occurrences
     /\ occurrences'[Len(occurrences')][1] \notin Starts(occurrences)
     /\ occurrences'[Len(occurrences')][2] = i + 1
     /\ \A k \in 1..Len(occurrences) : occurrences[k][2] < i + 1
  \/ \E k \in 1..Len(occurrences) :
       /\ occurrences' = [occurrences EXCEPT ![k] = <<occurrences[k][1], i + 1>>]
       /\ occurrences[k][2] < i + 1

\* C2 amended: the returned list holds one span per start, in the order in
\* which the starts were first recorded by the scan; a later match from a
\* listed start replaces that span's end where it stands.  (So the ends
\* increase along the list when no start is recorded twice, and need not
\* otherwise.)
C2_Amended ==
  [][/\ MatchingStep => OccurrencesStep
     /\ MatchingReturn =>
          /\ spans' = occurrences
          /\ Cardinality(Starts(occurrences)) = Len(occurrences)]_vars

C2_Witness ==
  /\ pc = "ready" /\ last = "matching"
  /\ Len(spans) = 2 /\ spans[1][2] > spans[2][2]

\* A recorded span lies in the text, is not empty and is a word of the
\* fragment.
SpanOK(sp) ==
  /\ 0 <= sp[1] /\ sp[1] < sp[2] /\ sp[2] <= Len(text)
  /\ test_word(automaton, PySlice(text, sp[1], sp[2])).accepted

\* C3: after every iteration of the scan, and in the list returned, every
\* span (start, end) has 0 <= start < end <= len(text) and text[start:end]
\* passes test_word; also after an end overwrote an earlier one.
C3_SpansAreMatches ==
  /\ pc = "scan" => \A k \in 1..Len(occurrences) : SpanOK(occurrences[k])
  /\ (pc = "ready" /\ last = "matching") => \A k \in 1..Len(spans) : SpanOK(spans[k])

C3_Witness ==
  /\ pc = "scan" /\ i = Len(text)
  /\ \E j, k \in 1..Len(occurrences) : j < k /\ occurrences[j][2] > occurrences[k][2]

P_digit_class == <<"\\", "d">>

P_word_class == <<"\\", "w">>

\* C4: `\d` accepts every one-symbol word that is a digit and rejects every
\* one that is a letter; `\w` accepts every one-symbol word that is a letter
\* or a digit.
C4_EscapeClasses ==
  (WordTested /\ Len(word) = 1) =>
    /\ pattern = P_digit_class =>
         /\ word[1] \in DIGITS_SET => accepted
         /\ word[1] \in ASCII_SET => ~accepted
    /\ (pattern = P_word_class /\ word[1] \in ASCII_SET \cup DIGITS_SET) => accepted

\* The raw pattern is a bracket class [c1...cn] of literal symbols, n >= 1.
IsBracketClass(p) ==
  /\ Len(p) >= 3
  /\ p[1] = "[" /\ p[Len(p)] = "]"
  /\ \A k \in 2..(Len(p) - 1) : p[k] \in VALID_SYMBOLS

ClassSymbols(p) == {p[k] : k \in 2..(Len(p) - 1)}

\* C5: the fragment of a bracket class accepts each one-symbol word ci, and
\* without a wildcard among the ci it accepts no other word.
C5_BracketClass ==
  (WordTested /\ IsBracketClass(pattern)) =>
    /\ (Len(word) = 1 /\ word[1] \in ClassSymbols(pattern)) => accepted
    /\ (ANY_SYMBOL \notin ClassSymbols(pattern)
          /\ ~(Len(word) = 1 /\ word[1] \in ClassSymbols(pattern))) => ~accepted

\* The raw pattern is one atom: a literal, an escaped class or a bracket
\* class.
IsAtom(x) ==
  \/ Len(x) = 1 /\ x[1] \in VALID_SYMBOLS
  \/ Len(x) = 2 /\ x[1] = BACK_SLASH /\ x[2] \in CLASS_SYMBOLS
  \/ IsBracketClass(x)

\* The standard form of an atom.
AtomStandard(x) ==
  IF IsBracketClass(x)
  THEN <<"(">> \o JoinWith("+", SubSeq(x, 2, Len(x) - 1)) \o <<")">>
  ELSE x

\* The one-symbol words of an atom.
AtomAccepts(x, c) ==
  IF Len(x) = 1 THEN (x[1] = ANY_SYMBOL \/ x[1] = c)
  ELSE IF x[1] = BACK_SLASH
  THEN \/ x[2] = DIGITS /\ c \in DIGITS_SET
       \/ x[2] = WORD /\ c \in ASCII_SET \cup DIGITS_SET
       \/ x[2] = ALPHA /\ c \in ASCII_SET
  ELSE (ANY_SYMBOL \in ClassSymbols(x) \/ c \in ClassSymbols(x))

\* The raw pattern is an atom followed by the quantifier q.
IsQuantified(p, q) ==
  Len(p) >= 2 /\ p[Len(p)] = q /\ IsAtom(SubSeq(p, 1, Len(p) - 1))

QuantifiedAtom(p) == SubSeq(p, 1, Len(p) - 1)

\* C6: for an atom X, `X+` becomes `XX*` and `X?` becomes `(X+?)` with X the
\* whole atom, so that `X?` accepts exactly the words of X and the empty
\* word, and `X+` exactly the repetitions of X, one or more.
C6_Quantifiers ==
  /\ (pc # "start" /\ IsQuantified(pattern, ONE_CLOSURE)) =>
       /\ outcome.status = "ok"
       /\ outcome.regex = AtomStandard(QuantifiedAtom(pattern))
                            \o AtomStandard(QuantifiedAtom(pattern)) \o <<STD_KLEENE>>
       /\ WordTested =>
            (accepted <=> /\ Len(word) >= 1
                          /\ \A k \in 1..Len(word) :
                               AtomAccepts(QuantifiedAtom(pattern), word[k]))
  /\ (pc # "start" /\ IsQuantified(pattern, ONE_OR_NONE)) =>
       /\ outcome.status = "ok"
       /\ outcome.regex = <<"(">> \o AtomStandard(QuantifiedAtom(pattern))
                            \o <<STD_SUM, STD_EPSILON, ")">>
       /\ WordTested =>
            (accepted <=> \/ Len(word) = 0
                          \/ /\ Len(word) = 1
                             /\ AtomAccepts(QuantifiedAtom(pattern), word[1]))

RECURSIVE WellNested(_, _, _)
\* The round and square brackets of p from index k are properly nested,
\* given the stack of the brackets open so far.
WellNested(p, k, stack) ==
  IF k > Len(p) THEN Len(stack) = 0
  ELSE IF p[k] \in {"(", "["} THEN WellNested(p, k + 1, <<p[k]>> \o stack)
  ELSE IF p[k] = ")"
  THEN Len(stack) > 0 /\ Head(stack) = "(" /\ WellNested(p, k + 1, Tail(stack))
  ELSE IF p[k] = "]"
  THEN Len(stack) > 0 /\ Head(stack) = "[" /\ WellNested(p, k + 1, Tail(stack))
  ELSE WellNested(p, k + 1, stack)

\* C7: a raw pattern whose brackets are not properly nested and balanced is
\* rejected by validation, with the syntax error.
C7_UnbalancedRejected ==
  (pc # "start" /\ pattern # <<>> /\ ~WellNested(pattern, 1, <<>>)) =>
    outcome.status = "ValueError"

Count(p, c) == Cardinality({k \in 1..Len(p) : p[k] = c})

EpsilonTargets(a, S) ==
  UNION {Range(StateGet(a.states[n], EPSILON, <<>>)) : n \in S}

\* The targets of the edges of the states in S, whatever the label.
Targets(a, S) == UNION {Range(Neighbours(a.states[n])) : n \in S}

RECURSIVE Reachable(_, _)
\* The states reachable from those in S along edges of any label.
Reachable(a, S) ==
  IF Targets(a, S) \subseteq S THEN S ELSE Reachable(a, S \cup Targets(a, S))

RECURSIVE EpsilonReachable(_, _)
\* The states reachable from those in S along epsilon edges only.
EpsilonReachable(a, S) ==
  IF EpsilonTargets(a, S) \subseteq S THEN S
  ELSE EpsilonReachable(a, S \cup EpsilonTargets(a, S))

\* A state reachable from the initial one lies on a cycle of epsilon edges.
HasEpsilonCycle(a) ==
  \E n \in Reachable(a, {a.initial}) :
    n \in EpsilonReachable(a, EpsilonTargets(a, {n}))

HasEpsilonSelfLoop(a) ==
  \E n \in Reachable(a, {a.initial}) : n \in EpsilonTargets(a, {n})

\* C9: with the check on, construction ends with the epsilon-cycle error
\* exactly when the epsilon edges of the states reachable from the initial
\* state form a cycle: a fragment returned has none, a fragment rejected for
\* a cycle has one, and a self-loop is a cycle.
C9_AcyclicCheck ==
  /\ outcome.status = "ok" =>
       (~HasEpsilonCycle(automaton) /\ ~HasEpsilonSelfLoop(automaton))
  /\ outcome.status = "EpsilonCycle" => HasEpsilonCycle(automaton)

C9_Witness ==
  /\ outcome.status = "EpsilonCycle" /\ pattern # <<>>
  /\ ~HasEpsilonSelfLoop(automaton)

\* C10: test_word and matching leave the fragment as it is: the labels of
\* every state, its ordered lists of targets, the initial and the final
\* state.
C10_FragmentUnchanged ==
  [][(pc \in {"ready", "scan"}) => (automaton' = automaton)]_vars

C10_Witness ==
  /\ pc = "ready" /\ last = "matching" /\ Len(spans) > 0
  /\ \E n \in 1..Len(automaton.states) : ~StateContains(automaton.states[n], EPSILON)


IsLiteral(p) == Len(p) > 0 /\ \A k \in 1..Len(p) : p[k] \in VALID_SYMBOLS

\* C11: the fragment of a non-empty pattern p of literal symbols accepts the
\* word p and rejects the word p followed by `x`.
C11_LiteralPattern ==
  (WordTested /\ IsLiteral(pattern)) =>
    /\ word = pattern => accepted
    /\ word = Append(pattern, "x") => ~accepted

C11_Witness ==
  /\ WordTested /\ Len(pattern) = MaxLitLen
  /\ \E k \in 1..Len(pattern) : pattern[k] = ANY_SYMBOL
  /\ word = pattern /\ accepted

\* The dict d as a map from state to set of indexes.
AsMap(d) == [q \in {d[k].state : k \in 1..Len(d)} |-> DictGet(d, q)]

\* The label the priority alpha > word > digit > any > literal chooses for a
\* state with the given table and the symbol c.
EffectiveLabel(table, c) ==
  IF \E k \in 1..Len(table) : table[k].key = <<BACK_SLASH, ALPHA>> /\ c \in ASCII_SET
  THEN <<BACK_SLASH, ALPHA>>
  ELSE IF \E k \in 1..Len(table) :
            table[k].key = <<BACK_SLASH, WORD>> /\ c \in ASCII_SET \cup DIGITS_SET
  THEN <<BACK_SLASH, WORD>>
  ELSE IF \E k \in 1..Len(table) : table[k].key = <<BACK_SLASH, DIGITS>> /\ c \in DIGITS_SET
  THEN <<BACK_SLASH, DIGITS>>
  ELSE IF \E k \in 1..Len(table) : table[k].key = <<ANY_SYMBOL>>
  THEN <<ANY_SYMBOL>>
  ELSE <<c>>

\* The targets of the state n under the label chosen for the symbol c.
EffectiveTargets(a, n, c) ==
  UNION { Range(a.states[n][k].val) :
            k \in {j \in 1..Len(a.states[n]) :
                     a.states[n][j].key = EffectiveLabel(a.states[n], c)} }

\* The map the priority rule gives for the frontier f and the symbol c.
ExpectedStep(a, f, c) ==
  [q \in UNION {EffectiveTargets(a, f[k].state, c) : k \in 1..Len(f)} |->
     UNION {f[k].indexes : k \in {j \in 1..Len(f) :
                                     q \in EffectiveTargets(a, f[j].state, c)}}]

\* C12: __trans follows, from every state of the frontier, the one label
\* chosen by the priority alpha > word > digit > any > literal, and gives
\* each target the union of the index sets of the states that lead to it.
C12_StepPriority ==
  last = "trans" => AsMap(result) = ExpectedStep(automaton, frontier, symbol)

\* The epsilon targets of the state n, in order.
EpsilonList(a, n) == StateGet(a.states[n], EPSILON, <<>>)

\* The labelled edges of the state n, the epsilon edges left out.
LabelledEdges(a, n) ==
  {e \in Range(a.states[n]) : e.key # EPSILON}

\* s is f with a new initial and a new final state and four epsilon edges:
\* new initial to old initial and to new final, old final to back and to new
\* final.
StarShape(f, s, back) ==
  /\ Len(s.states) = Len(f.states) + 2
  /\ {s.initial, s.final} = (1..Len(s.states)) \ (1..Len(f.states))
  /\ s.initial # s.final
  /\ \A n \in 1..Len(f.states) : n # f.final => s.states[n] = f.states[n]
  /\ LabelledEdges(s, f.final) = LabelledEdges(f, f.final)
  /\ EpsilonList(s, f.final) = EpsilonList(f, f.final) \o <<back, s.final>>
  /\ s.states[s.initial] = <<[key |-> EPSILON, val |-> <<f.initial, s.final>>]>>
  /\ s.states[s.final] = <<>>

\* C13 as stated: the star adds the epsilon edges new initial to old
\* initial, new initial to new final, old final to old initial and old final
\* to new final.
C13_Original ==
  last = "star" => StarShape(automaton, result, automaton.initial)

\* C13 amended: the star creates a new initial and a new final state, which
\* are the initial and final states of the result, and adds exactly four
\* epsilon edges: new initial to old initial, new initial to new final, old
\* final to NEW initial, old final to new final.
C13_Amended ==
  last = "star" => StarShape(automaton, result, result.initial)

C13_Witness ==
  /\ last = "star" /\ Len(automaton.states) > 2
  /\ EpsilonList(result, automaton.final) = <<result.initial, result.final>>

\* The states of the frontier f.
FrontierStates(f) == {f[k].state : k \in 1..Len(f)}

\* The map from every state reachable from the frontier f by zero or more
\* epsilon edges to the union of the index sets of the frontier states that
\* reach it.
ExpectedClosure(a, f) ==
  [q \in EpsilonReachable(a, FrontierStates(f)) |->
     UNION {f[k].indexes : k \in {j \in 1..Len(f) :
                                     q \in EpsilonReachable(a, {f[j].state})}}]

\* C14: on a fragment without epsilon cycle, __closure returns the dict
\* whose keys are the frontier states and the states they reach by epsilon
\* edges, each with the union of the index sets of the frontier states that
\* reach it; the loop followed step by step returns what __closure computes
\* at once inside test_word and matching.
C14_ClosureExact ==
  (last = "closure" /\ ~HasEpsilonCycle(automaton)) =>
    /\ AsMap(result) = ExpectedClosure(automaton, frontier)
    /\ result = closure(automaton.states, frontier).state_dict

\* A state expanded with one index set receives another afterwards, and the
\* states behind it hold both.
C14_Witness ==
  /\ last = "closure" /\ Len(frontier) = 2
  /\ frontier[1].state \in EpsilonReachable(automaton, {frontier[2].state})
  /\ \E q \in EpsilonTargets(automaton, {frontier[1].state}) :
       /\ q \notin FrontierStates(frontier)
       /\ AsMap(result)[q] = frontier[1].indexes \cup frontier[2].indexes

\* C15: on a fragment that passed the check for epsilon cycles, __closure
\* called on any frontier returns: its queue runs empty although a state is
\* put on it again every time it is reached.
C15_ClosureTerminates ==
  (pc = "closure") ~> (pc = "ready" /\ last = "closure")

\* A closure has returned after putting a state on the queue more than once.
C15_Witness ==
  /\ pc = "ready" /\ last = "closure"
  /\ Len(frontier) = 2
  /\ frontier[1].state \in EpsilonTargets(automaton, {frontier[2].state})

\* What __trans returns for the frontier that holds the entry e alone.
SingleStep(a, e, c) == AsMap(trans(a.states, <<e>>, c).state_dict)

\* The frontier f in the opposite order.
Reversed(f) == [k \in 1..Len(f) |-> f[Len(f) + 1 - k]]

\* C16: what __trans returns does not depend on the order of the frontier
\* nor on the other states in it: every state contributes the targets it
\* contributes when it is alone in the frontier, with its index set.
C16_StepLocal ==
  last = "trans" =>
    /\ AsMap(result) = AsMap(trans(automaton.states, Reversed(frontier), symbol).state_dict)
    /\ DOMAIN AsMap(result)
         = UNION {DOMAIN SingleStep(automaton, frontier[k], symbol) : k \in 1..Len(frontier)}
    /\ \A q \in DOMAIN AsMap(result) :
         AsMap(result)[q] =
           UNION {SingleStep(automaton, frontier[k], symbol)[q] :
                    k \in {j \in 1..Len(frontier) :
                             q \in DOMAIN SingleStep(automaton, frontier[j], symbol)}}

\* The string s without the codes of the colour markup.
StripColour(s) == SelectSeq(s, LAMBDA c : c \notin {COLOR_ON, COLOR_OFF})

\* C17: the text printed with the occurrences highlighted holds every
\* character of the text once and in order: without the colour markup it is
\* the text.
C17_HighlightKeepsText ==
  (pc = "ready" /\ last = "print") => StripColour(result) = text

====
